---- MODULE Spec2Model ----
(***************************************************************************)
(* The staging index of rug (src/src/index.rs): the binary codec of the    *)
(* index file, the load / add / write_updates operations of Index, and the *)
(* lock-and-rename publish protocol they run over the file system, for     *)
(* independent processes working on one repository.                        *)
(*                                                                         *)
(* Representation.  A byte is a number in 0..255 and a file, a String or a *)
(* Vec<u8> is a sequence of bytes.  A fixed-width integer is its           *)
(* big-endian byte sequence (u32: 4 bytes, i64/u64: 8 bytes), so that the  *)
(* casts of the code keep their width: `x as u32` keeps the low four bytes *)
(* and `x as i64` of a u32 zero-extends.  flags (u16) is a number.         *)
(***************************************************************************)
EXTENDS Integers, Sequences, FiniteSets, TLC

----------------------------------------------------------------------------
(* Program constants, src/src/index.rs:15-19 *)

MAX_PATH_SIZE == 4095

CHECKSUM_SIZE == 20

HEADER_SIZE == 12

MIN_ENTRY_SIZE == 64

----------------------------------------------------------------------------
(* Bytes, integers, strings *)

Byte == 0..255

Min(a, b) == IF a <= b THEN a ELSE b

Zeros(n) == [i \in 1..n |-> 0]

\* u32::to_be_bytes of a number below 2^31
U32Bytes(n) == << n \div 16777216, (n \div 65536) % 256, (n \div 256) % 256, n % 256 >>

\* u16::to_be_bytes
U16Bytes(n) == << (n \div 256) % 256, n % 256 >>

\* u16::from_be_bytes
U16Value(b) == b[1] * 256 + b[2]

\* `x as u32` of an i64/u64 (8 bytes) or of a u32 (4 bytes): the low 32 bits
AsU32(x) == SubSeq(x, Len(x) - 3, Len(x))

\* `x as i64` / `x as u64` of a u32: zero extension
AsU64(x) == Zeros(4) \o x

\* `n as u16` of a usize
AsU16(n) == n % 65536

\* Ord for String: byte-wise lexicographic order
StrLess(a, b) ==
    \E i \in 1..(Min(Len(a), Len(b)) + 1) :
        /\ \A j \in 1..(i - 1) : a[j] = b[j]
        /\ \/ i > Len(a) /\ i <= Len(b)
           \/ i <= Len(a) /\ i <= Len(b) /\ a[i] < b[i]

\* str::from_utf8(..).is_ok(): well-formed UTF-8 (Unicode, table 3-7)
RECURSIVE Utf8Valid(_, _)
Utf8Valid(b, i) ==
    LET n == Len(b)
        Cont(j) == j <= n /\ b[j] >= 128 /\ b[j] <= 191
    IN  IF i > n THEN TRUE
        ELSE IF b[i] < 128 THEN Utf8Valid(b, i + 1)
        ELSE IF b[i] >= 194 /\ b[i] <= 223 THEN Cont(i + 1) /\ Utf8Valid(b, i + 2)
        ELSE IF b[i] = 224
            THEN i + 1 <= n /\ b[i + 1] >= 160 /\ b[i + 1] <= 191 /\ Cont(i + 2)
                 /\ Utf8Valid(b, i + 3)
        ELSE IF b[i] = 237
            THEN i + 1 <= n /\ b[i + 1] >= 128 /\ b[i + 1] <= 159 /\ Cont(i + 2)
                 /\ Utf8Valid(b, i + 3)
        ELSE IF b[i] >= 225 /\ b[i] <= 239
            THEN Cont(i + 1) /\ Cont(i + 2) /\ Utf8Valid(b, i + 3)
        ELSE IF b[i] = 240
            THEN i + 1 <= n /\ b[i + 1] >= 144 /\ b[i + 1] <= 191 /\ Cont(i + 2)
                 /\ Cont(i + 3) /\ Utf8Valid(b, i + 4)
        ELSE IF b[i] >= 241 /\ b[i] <= 243
            THEN Cont(i + 1) /\ Cont(i + 2) /\ Cont(i + 3) /\ Utf8Valid(b, i + 4)
        ELSE IF b[i] = 244
            THEN i + 1 <= n /\ b[i + 1] >= 128 /\ b[i + 1] <= 143 /\ Cont(i + 2)
                 /\ Cont(i + 3) /\ Utf8Valid(b, i + 4)
        ELSE FALSE

\* util::encode_hex: two lower-case hexadecimal digits (ASCII) per byte
HexDigits == << 48, 49, 50, 51, 52, 53, 54, 55, 56, 57, 97, 98, 99, 100, 101, 102 >>

encode_hex(bytes) ==
    [i \in 1..(2 * Len(bytes)) |->
        IF i % 2 = 1 THEN HexDigits[(bytes[(i + 1) \div 2] \div 16) + 1]
                     ELSE HexDigits[(bytes[i \div 2] % 16) + 1]]

HexValue(c) ==
    IF c >= 48 /\ c <= 57 THEN c - 48
    ELSE IF c >= 97 /\ c <= 102 THEN c - 87
    ELSE c - 55

\* util::decode_hex of a string of hexadecimal digits: one byte per two digits
decode_hex(hex) ==
    [i \in 1..(Len(hex) \div 2) |-> 16 * HexValue(hex[2 * i - 1]) + HexValue(hex[2 * i])]

----------------------------------------------------------------------------
(* crypto::sha1::Sha1.  The digest is abstracted to a 20-byte position-    *)
(* weighted checksum: the digest of the empty input is SHA-1's, and the    *)
(* digests of two inputs that differ in one byte differ.  A hasher is the  *)
(* running digest and the number of bytes taken in.                        *)

Sha1Empty ==
    << 218, 57, 163, 238, 94, 107, 75, 13, 50, 85,
       191, 239, 149, 96, 24, 144, 175, 216, 7, 9 >>

Sha1_new == [h |-> Sha1Empty, n |-> 0]

RECURSIVE Sha1Mix(_, _, _, _)
Sha1Mix(data, j, n, k) ==
    IF j > Len(data) THEN 0
    ELSE ((n + j + k) * (data[j] + 1) + Sha1Mix(data, j + 1, n, k)) % 256

Sha1_input(s, data) ==
    [h |-> [k \in 1..20 |-> (s.h[k] + Sha1Mix(data, 1, s.n, k)) % 256],
     n |-> s.n + Len(data)]

\* Digest::result_str: the digest as 40 hexadecimal digits
Sha1_result_str(s) == encode_hex(s.h)

\* the digest of a whole byte sequence
Sha1Digest(data) == Sha1_input(Sha1_new, data).h

----------------------------------------------------------------------------
(* Entry, src/src/index.rs:21-137 *)

\* Entry::is_executable: the owner-execute bit of a u32 mode
Entry_is_executable(mode) == (mode[4] \div 64) % 2 = 1

MODE_EXECUTABLE == U32Bytes(33261)    \* 0o100755

MODE_REGULAR == U32Bytes(33188)       \* 0o100644

\* the mode of the file kept as it is
Entry_mode_kept(mode) == mode

\* Entry::mode
Entry_mode(mode) == IF Entry_is_executable(mode) THEN MODE_EXECUTABLE ELSE MODE_REGULAR

\* Entry::new: the entry of `pathname` from the blob id and the file's metadata
Entry_new(pathname, oid, metadata) ==
    [ctime      |-> metadata.ctime,
     ctime_nsec |-> metadata.ctime_nsec,
     mtime      |-> metadata.mtime,
     mtime_nsec |-> metadata.mtime_nsec,
     dev        |-> metadata.dev,
     ino        |-> metadata.ino,
     mode       |-> Entry_mode(metadata.mode),
     uid        |-> metadata.uid,
     gid        |-> metadata.gid,
     size       |-> metadata.size,
     oid        |-> oid,
     flags      |-> Min(AsU16(Len(pathname)), MAX_PATH_SIZE),
     path       |-> pathname]

\* the padding loop of Entry::to_bytes: zeros up to a multiple of 8
RECURSIVE PadTo8(_)
PadTo8(bytes) == IF Len(bytes) % 8 # 0 THEN PadTo8(Append(bytes, 0)) ELSE bytes

\* Entry::to_bytes
Entry_to_bytes(e) ==
    PadTo8(AsU32(e.ctime) \o AsU32(e.ctime_nsec) \o AsU32(e.mtime) \o AsU32(e.mtime_nsec)
           \o AsU32(e.dev) \o AsU32(e.ino) \o AsU32(e.mode) \o AsU32(e.uid)
           \o AsU32(e.gid) \o AsU32(e.size)
           \o decode_hex(e.oid)
           \o U16Bytes(e.flags)
           \o e.path
           \o << 0 >>)

\* bytes[62..].split(|b| b == 0).next(): the bytes before the first 0x00
RECURSIVE UpToNul(_, _)
UpToNul(bytes, i) ==
    IF i > Len(bytes) \/ bytes[i] = 0 THEN << >>
    ELSE << bytes[i] >> \o UpToNul(bytes, i + 1)

\* the i-th (0-based) of the ten u32 metadata fields of Entry::parse
MetadataInt(bytes, i) == SubSeq(bytes, 4 * i + 1, 4 * i + 4)

\* Entry::parse panics (from_utf8(..).unwrap()) when the path is not UTF-8
Entry_parse_panics(bytes) == ~Utf8Valid(UpToNul(bytes, 63), 1)

\* Entry::parse of an entry's bytes (at least 64 of them)
Entry_parse(bytes) ==
    [ctime      |-> AsU64(MetadataInt(bytes, 0)),
     ctime_nsec |-> AsU64(MetadataInt(bytes, 1)),
     mtime      |-> AsU64(MetadataInt(bytes, 2)),
     mtime_nsec |-> AsU64(MetadataInt(bytes, 3)),
     dev        |-> AsU64(MetadataInt(bytes, 4)),
     ino        |-> AsU64(MetadataInt(bytes, 5)),
     mode       |-> MetadataInt(bytes, 6),
     uid        |-> MetadataInt(bytes, 7),
     gid        |-> MetadataInt(bytes, 8),
     size       |-> AsU64(MetadataInt(bytes, 9)),
     oid        |-> encode_hex(SubSeq(bytes, 41, 60)),
     flags      |-> U16Value(SubSeq(bytes, 61, 62)),
     path       |-> UpToNul(bytes, 63)]

----------------------------------------------------------------------------
(* Index.entries: BTreeMap<String, Entry>, a sequence of entries kept in   *)
(* strictly increasing order of the key, which is the entry's path.        *)

\* an insert that keeps the value of an equal key, as entry(key).or_insert(value)
BTreeMap_insert_keep(map, key, value) ==
    IF \E i \in 1..Len(map) : map[i].path = key
    THEN map
    ELSE LET k == Cardinality({i \in 1..Len(map) : StrLess(map[i].path, key)})
         IN  SubSeq(map, 1, k) \o << value >> \o SubSeq(map, k + 1, Len(map))

\* an insert into a table that keeps the order of insertion, as a Vec would
BTreeMap_insert_unsorted(map, key, value) ==
    IF \E i \in 1..Len(map) : map[i].path = key
    THEN [i \in 1..Len(map) |-> IF map[i].path = key THEN value ELSE map[i]]
    ELSE Append(map, value)

\* BTreeMap::insert(key, value): replaces the value of an equal key
BTreeMap_insert(map, key, value) ==
    IF \E i \in 1..Len(map) : map[i].path = key
    THEN [i \in 1..Len(map) |-> IF map[i].path = key THEN value ELSE map[i]]
    ELSE LET k == Cardinality({i \in 1..Len(map) : StrLess(map[i].path, key)})
         IN  SubSeq(map, 1, k) \o << value >> \o SubSeq(map, k + 1, Len(map))

\* Index::store_entry
Index_store_entry(map, entry) == BTreeMap_insert(map, entry.path, entry)

\* the header write_updates builds: "DIRC", version 2, the number of entries
SIGNATURE == << 68, 73, 82, 67 >>

VERSION == 2

HeaderBytes(map) == SIGNATURE \o U32Bytes(VERSION) \o U32Bytes(Len(map))

----------------------------------------------------------------------------
(* Inputs: processes, paths, blob ids and file metadata *)

Procs == {"p1", "p2"}

\* the largest number of entries an Index is given
MaxEntries == 2

PathA == << 97 >>                                            \* "a"

PathB == << 98 >>                                            \* "b"

PathLong == << 100, 105, 114, 47, 102, 105, 108, 101, 49 >>   \* "dir/file1"

OidA ==   \* "e69de29bb2d1d6434b8b29ae775ad8c2e48c5391"
    << 101, 54, 57, 100, 101, 50, 57, 98, 98, 50, 100, 49, 100, 54, 52, 51, 52, 98, 56, 98,
       50, 57, 97, 101, 55, 55, 53, 97, 100, 56, 99, 50, 101, 52, 56, 99, 53, 51, 57, 49 >>

OidB ==   \* "ce013625030ba8dba906f756967f9e9ca394464a"
    << 99, 101, 48, 49, 51, 54, 50, 53, 48, 51, 48, 98, 97, 56, 100, 98, 97, 57, 48, 54,
       102, 55, 53, 54, 57, 54, 55, 102, 57, 101, 57, 99, 97, 51, 57, 52, 52, 54, 52, 97 >>

\* an i64/u64 below 2^31
Wide(n) == Zeros(4) \o U32Bytes(n)

\* fs::Metadata of a regular file, mode 0o100644
StatRegular ==
    [ctime |-> Wide(1700000000), ctime_nsec |-> Wide(500), mtime |-> Wide(1700000001),
     mtime_nsec |-> Wide(600), dev |-> Wide(2049), ino |-> Wide(131), mode |-> U32Bytes(33188),
     uid |-> U32Bytes(1000), gid |-> U32Bytes(100), size |-> Wide(5)]

\* fs::Metadata of an executable file, mode 0o100744 (CommandHelper::make_executable)
StatExecutable ==
    [ctime |-> Wide(1700000002), ctime_nsec |-> Wide(0), mtime |-> Wide(1700000003),
     mtime_nsec |-> Wide(7), dev |-> Wide(2049), ino |-> Wide(132), mode |-> U32Bytes(33252),
     uid |-> U32Bytes(0), gid |-> U32Bytes(0), size |-> Wide(300)]

\* fs::Metadata of a file whose inode number (2^32 + 131) and size (2^32 + 5) need
\* more than 32 bits
StatWide ==
    [ctime |-> Wide(1700000000), ctime_nsec |-> Wide(500), mtime |-> Wide(1700000001),
     mtime_nsec |-> Wide(600), dev |-> Wide(2049), ino |-> << 0, 0, 0, 1, 0, 0, 0, 131 >>,
     mode |-> U32Bytes(33188), uid |-> U32Bytes(1000), gid |-> U32Bytes(100),
     size |-> << 0, 0, 0, 1, 0, 0, 0, 5 >>]

\* what a process of Spec adds: its own path, with one blob and one file
PathsOf(p) == IF p = "p1" THEN {PathA} ELSE {PathB}

Files == {[oid |-> OidA, metadata |-> StatRegular]}

\* what the single process of SpecRoundTrip adds
PathsRoundTrip == {PathA, PathB, PathLong}

\* "a" is added as either of two files, the other paths as one
FilesRoundTrip(path) ==
    IF path = PathA
    THEN {[oid |-> OidA, metadata |-> StatWide],
          [oid |-> OidB, metadata |-> StatExecutable]}
    ELSE {[oid |-> OidB, metadata |-> StatExecutable]}

\* how the environment of SpecCorrupt changes a byte: by 1, and in its top bit
FlipDeltas == {1, 128}

----------------------------------------------------------------------------
(* State *)

VARIABLES
    disk,       \* the files at Index.pathname (.git/index) and at the lock path
    pc,         \* per process: where it is in the operation it runs
    entries,    \* per process: Index.entries
    lock,       \* per process: whether Index.lockfile holds the open lock file
    hasher,     \* per process: Index.hasher
    changed,    \* per process: Index.changed
    todo,       \* per process: the entries write_updates has still to write
    rd,         \* per process: load's Checksum reader
    ret,        \* per process: the operation running or last returned, and its result
    before,     \* per process: the index file's content when write_updates was called
    lastAdd,    \* per process: the latest add call of each path added to the Index,
                \* in the order of the calls
    published,  \* Index.entries of the write_updates that published last
    corrupted,  \* the damage done from outside to the file at the index path: "no",
                \* "flip", "truncate", and "replaced" once a write_updates has
                \* published a new file over the damaged one
    workspace,  \* the working tree a command runs in: its files and directories,
                \* and the order in which list_dir returns them
    args,       \* CommandContext.args
    repo,       \* the repository of the branch command: the id in HEAD, what the
                \* revision resolver answers, what the tree diff shows, what
                \* refs.create_branch answers, and the calls made to the tree diff
                \* and to refs.create_branch
    stdout,     \* what the process of a command has written to standard output
    stderr,     \* what main has written to standard error
    result      \* how the command ended

\* the state of the commands, which the steps of an Index by itself leave alone
cmdVars == << workspace, args, repo, stdout, stderr, result >>

vars == << disk, pc, entries, lock, hasher, changed, todo, rd, ret, before, lastAdd,
           published, corrupted, workspace, args, repo, stdout, stderr, result >>

\* Option<T> is the sequence of its value
None == << >>

Some(x) == << x >>

\* A reader's open file is the file that was at the index path when it was opened.
\* While that file is still the one at the path, `own` is None and the reader sees
\* what is written to it; once another file is renamed over the path, the reader
\* keeps the file it opened, in `own`.  `seen` are the bytes read so far and
\* `table` is what was published when the file was opened.
NoReader ==
    [open |-> FALSE, own |-> None, pos |-> 0, count |-> 0, digest |-> Sha1_new,
     seen |-> << >>, table |-> None]

NoRet == [op |-> "none", res |-> "none"]

\* an empty working tree
NoWorkspace == [files |-> {}, dirs |-> {}, order |-> "ascending"]

\* a repository in which nothing resolves and no branch was created
NoRepo == [head |-> None, resolve |-> [ok |-> FALSE, rev |-> << >>, errors |-> << >>],
           changes |-> << >>, create |-> None, diffs |-> 0, created |-> << >>]

\* no command has run
NoCommand ==
    /\ workspace = NoWorkspace
    /\ args = << >>
    /\ repo = NoRepo
    /\ stdout = << >>
    /\ stderr = << >>
    /\ result = "none"

Init ==
    /\ disk = [index |-> None, lock |-> None]
    /\ pc = [p \in Procs |-> "none"]
    /\ entries = [p \in Procs |-> << >>]
    /\ lock = [p \in Procs |-> FALSE]
    /\ hasher = [p \in Procs |-> None]
    /\ changed = [p \in Procs |-> FALSE]
    /\ todo = [p \in Procs |-> << >>]
    /\ rd = [p \in Procs |-> NoReader]
    /\ ret = [p \in Procs |-> NoRet]
    /\ before = [p \in Procs |-> None]
    /\ lastAdd = [p \in Procs |-> << >>]
    /\ published = None
    /\ corrupted = "no"
    /\ NoCommand

----------------------------------------------------------------------------
(* Lockfile (crate::lockfile): the lock is the file at the lock path,      *)
(* created exclusively; the new content is staged in it and commit renames *)
(* it over the target.                                                     *)

\* Lockfile::hold_for_update with `held` the Lockfile's own state: fails when the
\* lock file exists and is not this Lockfile's
Lockfile_hold_for_update(d, held) ==
    IF held THEN [ok |-> TRUE, disk |-> d]
    ELSE IF d.lock # None THEN [ok |-> FALSE, disk |-> d]
    ELSE [ok |-> TRUE, disk |-> [d EXCEPT !.lock = Some(<< >>)]]

\* Lockfile::write_bytes: appends to the open lock file
Lockfile_write_bytes(d, data) == [d EXCEPT !.lock = Some(@[1] \o data)]

\* Lockfile::commit: the lock file is renamed over the target
Lockfile_commit(d) == [index |-> d.lock, lock |-> None]

\* the readers after a rename over the index path: each keeps the file it opened
Detached(d, readers) ==
    [q \in Procs |->
        IF readers[q].open /\ readers[q].own = None
        THEN [readers[q] EXCEPT !.own = d.index]
        ELSE readers[q]]

----------------------------------------------------------------------------
(* Index, src/src/index.rs:191-328 *)

\* a write that goes to the lock file and to the index file as well
Index_write_through(d, hash, data) ==
    [disk   |-> [index |-> Some((IF d.index = None THEN << >> ELSE d.index[1]) \o data),
                 lock  |-> Some(d.lock[1] \o data)],
     hasher |-> hash]

\* a write that goes to the index file in place, not to the lock file
Index_write_in_place(d, hash, data) ==
    [disk   |-> [d EXCEPT !.index = Some((IF @ = None THEN << >> ELSE @[1]) \o data)],
     hasher |-> hash]

\* Index::write: the hasher is taken out of self.hasher by value (Option<Sha1> is
\* Copy), so input(data) feeds a temporary copy and self.hasher stays as it was
Index_write(d, hash, data) ==
    [disk   |-> Lockfile_write_bytes(d, data),
     hasher |-> hash]

\* Index::finish_write, the checksum: the digest of (a copy of) self.hasher
ChecksumBytes(hash) == decode_hex(Sha1_result_str(hash[1]))

\* a call whose Result is dropped instead of being passed on with `?`
Try_ignored(ok) == TRUE

\* the `?` after a fallible call: go on when it is Ok, return the error otherwise
Try(ok) == ok

\* the Index is dropped: write_updates consumed it, or its process ended
Dropped(p) ==
    /\ entries' = [entries EXCEPT ![p] = << >>]
    /\ lock' = [lock EXCEPT ![p] = FALSE]
    /\ hasher' = [hasher EXCEPT ![p] = None]
    /\ changed' = [changed EXCEPT ![p] = FALSE]
    /\ todo' = [todo EXCEPT ![p] = << >>]
    /\ lastAdd' = [lastAdd EXCEPT ![p] = << >>]

\* Index::new
NewIndex(p) ==
    /\ pc[p] = "none"
    /\ pc' = [pc EXCEPT ![p] = "ready"]
    /\ ret' = [ret EXCEPT ![p] = NoRet]
    /\ Dropped(p)
    /\ UNCHANGED << disk, rd, before, published, corrupted >>
    /\ UNCHANGED cmdVars

\* the process ends between two operations: its Index is dropped
Exit(p) ==
    /\ pc[p] = "ready"
    /\ pc' = [pc EXCEPT ![p] = "none"]
    /\ ret' = [ret EXCEPT ![p] = NoRet]
    /\ Dropped(p)
    /\ UNCHANGED << disk, rd, before, published, corrupted >>
    /\ UNCHANGED cmdVars

\* the log of add calls after add(pathname, oid, metadata): the call replaces the
\* logged call of the same path; `over` tells that it changed that path's values
Logged(log, pathname, oid, metadata) ==
    LET old == SelectSeq(log, LAMBDA a : a.path = pathname)
        rest == SelectSeq(log, LAMBDA a : a.path # pathname)
    IN  Append(rest, [path |-> pathname, oid |-> oid, metadata |-> metadata,
                      over |-> /\ old # << >>
                               /\ (old[1].oid # oid \/ old[1].metadata # metadata)])

\* Index::add
Add(p, pathname, oid, metadata) ==
    /\ pc[p] = "ready"
    /\ \/ Len(entries[p]) < MaxEntries
       \/ \E i \in 1..Len(entries[p]) : entries[p][i].path = pathname
    /\ entries' = [entries EXCEPT
                      ![p] = Index_store_entry(@, Entry_new(pathname, oid, metadata))]
    /\ changed' = [changed EXCEPT ![p] = TRUE]
    /\ lastAdd' = [lastAdd EXCEPT ![p] = Logged(@, pathname, oid, metadata)]
    /\ ret' = [ret EXCEPT ![p] = NoRet]
    /\ UNCHANGED << disk, pc, lock, hasher, todo, rd, before, published, corrupted >>
    /\ UNCHANGED cmdVars

\* write_updates returns `res`: the Index, which it took by value, is dropped
WriteUpdatesReturns(p, res) ==
    /\ pc' = [pc EXCEPT ![p] = "none"]
    /\ ret' = [ret EXCEPT ![p] = [op |-> "write_updates", res |-> res]]
    /\ before' = [before EXCEPT ![p] = None]
    /\ Dropped(p)

\* write_updates asking for the lock as an Index that never held it would
WU_Hold_fresh(p) ==
    /\ pc[p] = "ready"
    /\ IF Lockfile_hold_for_update(disk, FALSE).ok
       THEN /\ pc' = [pc EXCEPT ![p] = "wu_header"]
            /\ ret' = [ret EXCEPT ![p] = [op |-> "write_updates", res |-> "running"]]
            /\ before' = [before EXCEPT ![p] = disk.index]
            /\ lock' = [lock EXCEPT ![p] = TRUE]
            /\ disk' = Lockfile_hold_for_update(disk, FALSE).disk
            /\ UNCHANGED << entries, hasher, changed, todo, lastAdd >>
       ELSE /\ WriteUpdatesReturns(p, "LockHeld")
            /\ UNCHANGED disk
    /\ UNCHANGED << rd, published, corrupted >>
    /\ UNCHANGED cmdVars

\* Index::write_updates, line 231: self.lockfile.hold_for_update()?
WU_Hold(p) ==
    LET r == Lockfile_hold_for_update(disk, lock[p])
    IN  /\ pc[p] = "ready"
        /\ IF Try(r.ok)
           THEN /\ pc' = [pc EXCEPT ![p] = "wu_header"]
                /\ ret' = [ret EXCEPT ![p] = [op |-> "write_updates", res |-> "running"]]
                /\ before' = [before EXCEPT ![p] = disk.index]
                /\ lock' = [lock EXCEPT ![p] = r.ok]
                /\ disk' = r.disk
                /\ UNCHANGED << entries, hasher, changed, todo, lastAdd >>
           ELSE /\ WriteUpdatesReturns(p, "LockHeld")
                /\ UNCHANGED disk
        /\ UNCHANGED << rd, published, corrupted >>
        /\ UNCHANGED cmdVars

\* a step of write_updates that writes `data` through Index::write and, when the
\* write succeeds (io), goes on at `next` with `rest` left to write
WriteStep(p, data, hash, io, next, rest) ==
    LET w == Index_write(disk, hash, data)
    IN  /\ IF Try(io)
           THEN /\ pc' = [pc EXCEPT ![p] = next]
                /\ hasher' = [hasher EXCEPT ![p] = w.hasher]
                /\ todo' = [todo EXCEPT ![p] = rest]
                /\ disk' = w.disk
                /\ UNCHANGED << entries, lock, changed, ret, before, lastAdd >>
           ELSE /\ WriteUpdatesReturns(p, "IoError")
                /\ UNCHANGED disk
        /\ UNCHANGED << rd, published, corrupted >>

\* lines 233-238: begin_write, then the header
WU_Header(p, io) ==
    /\ pc[p] = "wu_header"
    /\ WriteStep(p, HeaderBytes(entries[p]), Some(Sha1_new), io, "wu_entries", entries[p])
    /\ UNCHANGED cmdVars

\* lines 239-241: the next entry of the clone of self.entries, in the map's order
WU_Entry(p, io) ==
    /\ pc[p] = "wu_entries"
    /\ todo[p] # << >>
    /\ WriteStep(p, Entry_to_bytes(Head(todo[p])), hasher[p], io, "wu_entries", Tail(todo[p]))
    /\ UNCHANGED cmdVars

\* finish_write going on to the rename without writing the checksum
WU_Checksum_skipped(p, io) ==
    /\ pc[p] = "wu_entries"
    /\ todo[p] = << >>
    /\ pc' = [pc EXCEPT ![p] = "wu_commit"]
    /\ UNCHANGED << disk, entries, lock, hasher, changed, todo, ret, before, lastAdd >>
    /\ UNCHANGED << rd, published, corrupted >>
    /\ UNCHANGED cmdVars

\* Index::finish_write, lines 221-224: the checksum
WU_Checksum(p, io) ==
    /\ pc[p] = "wu_entries"
    /\ todo[p] = << >>
    /\ IF Try(io)
       THEN /\ pc' = [pc EXCEPT ![p] = "wu_commit"]
            /\ disk' = Lockfile_write_bytes(disk, ChecksumBytes(hasher[p]))
            /\ UNCHANGED << entries, lock, hasher, changed, todo, ret, before, lastAdd >>
       ELSE /\ WriteUpdatesReturns(p, "IoError")
            /\ UNCHANGED disk
    /\ UNCHANGED << rd, published, corrupted >>
    /\ UNCHANGED cmdVars

\* Index::finish_write, line 225: Lockfile::commit renames the lock file over
\* the index file and gives the lock up
WU_Commit(p, io) ==
    /\ pc[p] = "wu_commit"
    /\ IF Try(io)
       THEN /\ disk' = Lockfile_commit(disk)
            /\ rd' = Detached(disk, rd)
            /\ published' = Some(entries[p])
            /\ corrupted' = IF corrupted = "no" THEN "no" ELSE "replaced"
            /\ WriteUpdatesReturns(p, "Ok")
       ELSE /\ WriteUpdatesReturns(p, "IoError")
            /\ UNCHANGED << disk, rd, published, corrupted >>
    /\ UNCHANGED cmdVars

----------------------------------------------------------------------------
(* Checksum (the reader of load), src/src/index.rs:139-189 *)

\* Checksum::new on the file at the index path
Checksum_new ==
    [open |-> TRUE, own |-> None, pos |-> 0, count |-> 0, digest |-> Sha1_new,
     seen |-> << >>, table |-> None]

\* the bytes of the file reader r has open
ReaderFile(d, r) == IF r.own = None THEN d.index[1] ELSE r.own[1]

\* Checksum::read: read_exact of `size` bytes; the bytes are not put into the digest
Checksum_read(file, r, size) ==
    IF r.pos + size > Len(file)
    THEN [ok |-> FALSE, buf |-> << >>, r |-> r]
    ELSE LET buf == SubSeq(file, r.pos + 1, r.pos + size)
         IN  [ok |-> TRUE, buf |-> buf,
              r |-> [r EXCEPT !.pos = @ + size, !.seen = @ \o buf]]

\* Checksum::verify_checksum: "Ok", or the error it returns
Checksum_verify_checksum(file, r) ==
    LET hash == Sha1_result_str(r.digest)
        got == Checksum_read(file, r, CHECKSUM_SIZE)
    IN  IF ~Try(got.ok) THEN [res |-> "UnexpectedEof", r |-> r]
        ELSE IF encode_hex(got.buf) # hash THEN [res |-> "ChecksumMismatch", r |-> got.r]
        ELSE [res |-> "Ok", r |-> got.r]

\* the entry count of the header as a number; a count of 2^16 or more, which no
\* file of the model is long enough to hold, is taken as 2^16
CountValue(b) == IF b[1] = 0 /\ b[2] = 0 THEN b[3] * 256 + b[4] ELSE 65536

\* Index::read_header: the count, or a panic (expect, panic!)
Index_read_header(file, r) ==
    LET got == Checksum_read(file, r, HEADER_SIZE)
        data == got.buf
    IN  IF ~got.ok THEN [panic |-> TRUE, r |-> r]
        ELSE IF ~Utf8Valid(SubSeq(data, 1, 4), 1) THEN [panic |-> TRUE, r |-> got.r]
        ELSE IF SubSeq(data, 1, 4) # SIGNATURE THEN [panic |-> TRUE, r |-> got.r]
        ELSE IF SubSeq(data, 5, 8) # U32Bytes(VERSION) THEN [panic |-> TRUE, r |-> got.r]
        ELSE [panic |-> FALSE, r |-> [got.r EXCEPT !.count = CountValue(SubSeq(data, 9, 12))]]

\* an extension by one chunk of 8 bytes at most
ExtendEntry_once(file, r, entry) ==
    IF entry[Len(entry)] = 0 THEN [ok |-> TRUE, buf |-> entry, r |-> r]
    ELSE IF r.pos + 8 > Len(file) THEN [ok |-> FALSE, buf |-> entry, r |-> r]
    ELSE [ok |-> TRUE, buf |-> entry \o SubSeq(file, r.pos + 1, r.pos + 8),
          r |-> [r EXCEPT !.pos = @ + 8,
                          !.seen = @ \o SubSeq(file, r.pos + 1, r.pos + 8)]]

\* Index::read_entries, lines 306-308: 8 more bytes while the last byte is not 0x00
RECURSIVE ExtendEntry(_, _, _)
ExtendEntry(file, r, entry) ==
    IF entry[Len(entry)] = 0 THEN [ok |-> TRUE, buf |-> entry, r |-> r]
    ELSE LET got == Checksum_read(file, r, 8)
         IN  IF ~Try(got.ok) THEN [ok |-> FALSE, buf |-> entry, r |-> r]
             ELSE ExtendEntry(file, got.r, entry \o got.buf)

\* Index::read_entries, lines 305-308: the bytes of the next entry
ReadEntryBytes(file, r) ==
    LET got == Checksum_read(file, r, MIN_ENTRY_SIZE)
    IN  IF ~Try(got.ok) THEN [ok |-> FALSE, buf |-> << >>, r |-> r]
        ELSE ExtendEntry(file, got.r, got.buf)

----------------------------------------------------------------------------
(* Index::load and Index::load_for_update *)

\* load returns `res` to its caller; the reader is dropped and its file closed
LoadReturns(p, res) ==
    /\ pc' = [pc EXCEPT ![p] = "ready"]
    /\ ret' = [ret EXCEPT ![p] = [op |-> ret[p].op, res |-> res]]
    /\ rd' = [rd EXCEPT ![p] = NoReader]

\* a panic unwinds the process: its Index is dropped with it
Panics(p) ==
    /\ pc' = [pc EXCEPT ![p] = "none"]
    /\ ret' = [ret EXCEPT ![p] = [op |-> ret[p].op, res |-> "Panic"]]
    /\ rd' = [rd EXCEPT ![p] = NoReader]
    /\ Dropped(p)

\* a load that clears the table only once it has found an index file to read
LoadOpen_clear_late(p, op) ==
    /\ lastAdd' = [lastAdd EXCEPT ![p] = << >>]
    /\ IF disk.index = None
       THEN /\ pc' = [pc EXCEPT ![p] = "ready"]
            /\ ret' = [ret EXCEPT ![p] = [op |-> op, res |-> "Ok"]]
            /\ UNCHANGED << rd, entries, hasher, changed >>
       ELSE /\ pc' = [pc EXCEPT ![p] = "ld_header"]
            /\ ret' = [ret EXCEPT ![p] = [op |-> op, res |-> "running"]]
            /\ rd' = [rd EXCEPT ![p] = [Checksum_new EXCEPT !.table = published]]
            /\ entries' = [entries EXCEPT ![p] = << >>]
            /\ hasher' = [hasher EXCEPT ![p] = None]
            /\ changed' = [changed EXCEPT ![p] = FALSE]
    /\ UNCHANGED << disk, lock, todo, before, published, corrupted >>

\* Index::load, lines 318-319: clear, then open_index_file
LoadOpen(p, op) ==
    /\ entries' = [entries EXCEPT ![p] = << >>]
    /\ hasher' = [hasher EXCEPT ![p] = None]
    /\ changed' = [changed EXCEPT ![p] = FALSE]
    /\ lastAdd' = [lastAdd EXCEPT ![p] = << >>]
    /\ IF disk.index = None
       THEN /\ pc' = [pc EXCEPT ![p] = "ready"]
            /\ ret' = [ret EXCEPT ![p] = [op |-> op, res |-> "Ok"]]
            /\ UNCHANGED rd
       ELSE /\ pc' = [pc EXCEPT ![p] = "ld_header"]
            /\ ret' = [ret EXCEPT ![p] = [op |-> op, res |-> "running"]]
            /\ rd' = [rd EXCEPT ![p] = [Checksum_new EXCEPT !.table = published]]
    /\ UNCHANGED << disk, lock, todo, before, published, corrupted >>

\* Index::load called by the process
Load(p) ==
    /\ pc[p] = "ready"
    /\ LoadOpen(p, "load")
    /\ UNCHANGED cmdVars

\* load_for_update going on to load whatever hold_for_update answered
LoadForUpdate_unchecked(p) ==
    /\ pc[p] = "ready"
    /\ pc' = [pc EXCEPT ![p] = "lfu_load"]
    /\ ret' = [ret EXCEPT ![p] = [op |-> "load_for_update", res |-> "running"]]
    /\ lock' = [lock EXCEPT ![p] = Lockfile_hold_for_update(disk, lock[p]).ok]
    /\ disk' = Lockfile_hold_for_update(disk, lock[p]).disk
    /\ UNCHANGED << entries, hasher, changed, todo, rd, before, lastAdd, published,
                    corrupted >>
    /\ UNCHANGED cmdVars

\* Index::load_for_update, line 257: self.lockfile.hold_for_update()?
LoadForUpdate(p) ==
    LET r == Lockfile_hold_for_update(disk, lock[p])
    IN  /\ pc[p] = "ready"
        /\ IF Try(r.ok)
           THEN /\ pc' = [pc EXCEPT ![p] = "lfu_load"]
                /\ ret' = [ret EXCEPT ![p] = [op |-> "load_for_update", res |-> "running"]]
                /\ lock' = [lock EXCEPT ![p] = r.ok]
                /\ disk' = r.disk
           ELSE /\ ret' = [ret EXCEPT ![p] = [op |-> "load_for_update", res |-> "LockHeld"]]
                /\ UNCHANGED << pc, lock, disk >>
        /\ UNCHANGED << entries, hasher, changed, todo, rd, before, lastAdd, published,
                        corrupted >>
        /\ UNCHANGED cmdVars

\* Index::load_for_update, line 258: self.load()?
LoadForUpdateLoad(p) ==
    /\ pc[p] = "lfu_load"
    /\ LoadOpen(p, "load_for_update")
    /\ UNCHANGED cmdVars

\* Index::load, line 321: read_header
LoadHeader(p) ==
    LET h == Index_read_header(ReaderFile(disk, rd[p]), rd[p])
    IN  /\ pc[p] = "ld_header"
        /\ IF h.panic
           THEN Panics(p)
           ELSE /\ pc' = [pc EXCEPT ![p] = "ld_entries"]
                /\ rd' = [rd EXCEPT ![p] = h.r]
                /\ UNCHANGED << entries, lock, hasher, changed, todo, ret, lastAdd >>
        /\ UNCHANGED << disk, before, published, corrupted >>
        /\ UNCHANGED cmdVars

\* Index::read_entries, one turn of the loop of lines 304-312
LoadEntry(p) ==
    LET got == ReadEntryBytes(ReaderFile(disk, rd[p]), rd[p])
    IN  /\ pc[p] = "ld_entries"
        /\ rd[p].count > 0
        /\ IF ~got.ok
           THEN /\ LoadReturns(p, "UnexpectedEof")
                /\ UNCHANGED << entries, lock, hasher, changed, todo, lastAdd >>
           ELSE IF Entry_parse_panics(got.buf)
           THEN Panics(p)
           ELSE /\ entries' = [entries EXCEPT
                                  ![p] = Index_store_entry(@, Entry_parse(got.buf))]
                /\ rd' = [rd EXCEPT ![p] = [got.r EXCEPT !.count = @ - 1]]
                /\ UNCHANGED << pc, lock, hasher, changed, todo, ret, lastAdd >>
        /\ UNCHANGED << disk, before, published, corrupted >>
        /\ UNCHANGED cmdVars

\* Index::load, line 323: verify_checksum, and the return of load
LoadVerify(p) ==
    LET v == Checksum_verify_checksum(ReaderFile(disk, rd[p]), rd[p])
    IN  /\ pc[p] = "ld_entries"
        /\ rd[p].count = 0
        /\ LoadReturns(p, v.res)
        /\ UNCHANGED << disk, entries, lock, hasher, changed, todo, before, lastAdd,
                        published, corrupted >>
        /\ UNCHANGED cmdVars

----------------------------------------------------------------------------
(* The environment: damage to the index file from outside the program *)

\* one byte of the index file is changed to another value
FlipByte ==
    /\ disk.index # None
    /\ corrupted = "no"
    /\ \E pos \in 1..Len(disk.index[1]), delta \in FlipDeltas :
          disk' = [disk EXCEPT !.index = Some([@[1] EXCEPT ![pos] = (@ + delta) % 256])]
    /\ corrupted' = "flip"
    /\ UNCHANGED << pc, entries, lock, hasher, changed, todo, rd, ret, before, lastAdd,
                    published >>
    /\ UNCHANGED cmdVars

\* the index file is cut to its first `len` bytes
Truncate ==
    /\ disk.index # None
    /\ corrupted = "no"
    /\ \E len \in 0..(Len(disk.index[1]) - 1) :
          disk' = [disk EXCEPT !.index = Some(SubSeq(@[1], 1, len))]
    /\ corrupted' = "truncate"
    /\ UNCHANGED << pc, entries, lock, hasher, changed, todo, rd, ret, before, lastAdd,
                    published >>
    /\ UNCHANGED cmdVars

----------------------------------------------------------------------------
(* Specifications *)

\* the steps of process p's Index, apart from add; IO are the outcomes of the
\* writes to the lock file and of the rename: TRUE for Ok, FALSE for an I/O error
IndexStep(p, IO) ==
    \/ NewIndex(p)
    \/ Exit(p)
    \/ Load(p)
    \/ LoadForUpdate(p)
    \/ LoadForUpdateLoad(p)
    \/ LoadHeader(p)
    \/ LoadEntry(p)
    \/ LoadVerify(p)
    \/ WU_Hold(p)
    \/ \E io \in IO : WU_Header(p, io)
    \/ \E io \in IO : WU_Entry(p, io)
    \/ \E io \in IO : WU_Checksum(p, io)
    \/ \E io \in IO : WU_Commit(p, io)

\* Spec: independent processes on one repository, each adding its own path;
\* every write and the rename may fail
Next ==
    \E p \in Procs :
        \/ IndexStep(p, BOOLEAN)
        \/ \E path \in PathsOf(p), f \in Files : Add(p, path, f.oid, f.metadata)

Spec == Init /\ [][Next]_vars

\* SpecRoundTrip: one process, adding any of three paths in any order, writing and
\* loading, with no I/O error and no damage to the file
NextRoundTrip ==
    \/ IndexStep("p1", {TRUE})
    \/ \E path \in PathsRoundTrip : \E f \in FilesRoundTrip(path) :
          Add("p1", path, f.oid, f.metadata)

SpecRoundTrip == Init /\ [][NextRoundTrip]_vars

\* SpecCorrupt: one process; between two of its runs the index file it published
\* is damaged once, in one byte or by truncation
NextCorrupt ==
    \/ IndexStep("p1", {TRUE})
    \/ \E f \in Files : Add("p1", PathA, f.oid, f.metadata)
    \/ pc["p1"] = "none" /\ FlipByte
    \/ pc["p1"] = "none" /\ Truncate

SpecCorrupt == Init /\ [][NextCorrupt]_vars

----------------------------------------------------------------------------
(* Claims *)

Loads == {"load", "load_for_update"}

\* process p's load has returned or ended, and nothing was called since
LoadEnded(p) == ret[p].op \in Loads /\ ret[p].res # "running"

\* C1: round trip.  When load of the published file returns, it returns success
\* and the table it leaves equals, field for field, the table that write_updates
\* was called on.
C1_RoundTrip ==
    \A p \in Procs :
        (LoadEnded(p) /\ published # None /\ corrupted = "no")
            => (ret[p].res = "Ok" /\ entries[p] = published[1])

\* C2: corruption detection.  Load of a published file in which one byte was
\* changed fails with ChecksumMismatch.
C2_CorruptionDetected ==
    \A p \in Procs :
        (LoadEnded(p) /\ corrupted = "flip") => ret[p].res = "ChecksumMismatch"

\* C3: the last 20 bytes of every file published by write_updates are the digest
\* of the bytes before them, the header and the entries.
C3_TrailingDigest ==
    (disk.index # None /\ corrupted = "no")
        => LET file == disk.index[1]
               n == Len(file)
           IN  /\ n >= HEADER_SIZE + CHECKSUM_SIZE
               /\ SubSeq(file, n - CHECKSUM_SIZE + 1, n)
                      = Sha1Digest(SubSeq(file, 1, n - CHECKSUM_SIZE))

----------------------------------------------------------------------------
(* write_updates as a function of the table it is called on *)

\* lines 239-241: every entry of the table through Index::write, in the table's order
RECURSIVE StageEntries(_, _, _)
StageEntries(d, hash, map) ==
    IF map = << >> THEN [disk |-> d, hasher |-> hash]
    ELSE LET w == Index_write(d, hash, Entry_to_bytes(Head(map)))
         IN  StageEntries(w.disk, w.hasher, Tail(map))

\* the file that a write_updates without failure publishes for the table `map`
WriteUpdatesImage(map) ==
    LET held == Lockfile_hold_for_update([index |-> None, lock |-> None], FALSE).disk
        h == Index_write(held, Some(Sha1_new), HeaderBytes(map))
        e == StageEntries(h.disk, h.hasher, map)
    IN  Lockfile_commit(Lockfile_write_bytes(e.disk, ChecksumBytes(e.hasher))).index[1]

IsPrefix(a, b) == Len(a) <= Len(b) /\ a = SubSeq(b, 1, Len(a))

\* the steps of write_updates at which the lock file is written or renamed
Writing == {"wu_header", "wu_entries", "wu_commit"}

WriteUpdatesOf(res) == [op |-> "write_updates", res |-> res]

\* C4: write_updates is all-or-nothing.  When write_updates returns a failure (of
\* the lock acquisition, of the write of the header, an entry or the checksum, or
\* of the rename) the index file is what it was when write_updates was called;
\* and the index file changes only in the commit step of a write_updates that
\* returns success.
C4_AllOrNothing ==
    [][ /\ \A p \in Procs :
              ( /\ ret'[p].op = "write_updates"
                /\ ret'[p].res \in {"LockHeld", "IoError"}
                /\ ret'[p] # ret[p] )
                  => /\ disk'.index = disk.index
                     /\ disk'.index = (IF pc[p] = "ready" THEN disk.index ELSE before[p])
        /\ disk'.index # disk.index
              => \E p \in Procs : /\ pc[p] = "wu_commit"
                                  /\ ret'[p] = WriteUpdatesOf("Ok")
                                  /\ disk'.index = disk.lock
      ]_vars

\* a write_updates failed after it had written the header and more to the lock
\* file, while an index file published before exists
C4_Witness ==
    \E p \in Procs :
        /\ ret[p] = WriteUpdatesOf("IoError")
        /\ disk.index # None
        /\ disk.lock # None
        /\ Len(disk.lock[1]) > HEADER_SIZE

\* process p calls write_updates or load_for_update in this step
Acquires(p) ==
    /\ pc[p] = "ready"
    /\ ret'[p].op \in {"write_updates", "load_for_update"}
    /\ ret'[p] # ret[p]

\* C5: mutual exclusion without waiting.  No two processes hold the index lock;
\* a process writes the lock file, or goes on in load_for_update, only while it
\* holds the lock; and a write_updates or load_for_update called while another
\* process holds the lock returns LockHeld in the step of the call, without the lock.
C5_MutualExclusion ==
    [][ /\ \A p, q \in Procs : p # q => ~(lock'[p] /\ lock'[q])
        /\ \A p \in Procs :
              ( \/ pc'[p] \in Writing
                \/ ret'[p].op = "load_for_update" /\ ret'[p].res \in {"running", "Ok"} )
                  => lock'[p] /\ disk'.lock # None
        /\ \A p \in Procs :
              (Acquires(p) /\ \E q \in Procs \ {p} : lock[q])
                  => /\ ret'[p].res = "LockHeld"
                     /\ ~lock'[p]
                     /\ pc'[p] \in {"ready", "none"}
                     /\ disk' = disk
      ]_vars

\* a process was refused with LockHeld while another, writing, holds the lock
C5_Witness ==
    \E p, q \in Procs :
        /\ p # q
        /\ lock[q] /\ pc[q] \in Writing
        /\ ret[p].res = "LockHeld"

\* C6: lock release on every outcome.  After write_updates or load_for_update has
\* returned, with success or with a failure, the process does not hold the lock
\* and no lock file is on disk.
C6_LockReleased ==
    \A p \in Procs :
        ( /\ pc[p] \in {"ready", "none"}
          /\ \/ ret[p].op = "write_updates" /\ ret[p].res \in {"Ok", "IoError"}
             \/ ret[p].op = "load_for_update"
                    /\ ret[p].res \in {"ChecksumMismatch", "UnexpectedEof"} )
            => ~lock[p] /\ disk.lock = None

\* C7: readers never observe a partially written index.  The file at the index
\* path is always the complete file of the write_updates that published last, and
\* the file a load has open is the complete file of one write_updates: what the
\* load has read is a prefix of that file, and all of it but the checksum once
\* the entries are read.
C7_ReadersSeeWholeFiles ==
    /\ disk.index # None
          => published # None /\ disk.index[1] = WriteUpdatesImage(published[1])
    /\ \A p \in Procs :
          rd[p].open
              => /\ rd[p].table # None
                 /\ ReaderFile(disk, rd[p]) = WriteUpdatesImage(rd[p].table[1])
                 /\ IsPrefix(rd[p].seen, WriteUpdatesImage(rd[p].table[1]))
                 /\ (pc[p] = "ld_entries" /\ rd[p].count = 0)
                        => Len(rd[p].seen) + CHECKSUM_SIZE
                               = Len(WriteUpdatesImage(rd[p].table[1]))

\* a load is part way through a file that another write_updates has replaced
C7_Witness ==
    \E p \in Procs :
        /\ rd[p].open
        /\ rd[p].own # None
        /\ rd[p].seen # << >>
        /\ disk.index # rd[p].own

\* C8: at most one entry per path, last add wins.  No two entries of the table
\* have the same path, and for every path added the table holds one entry, which
\* is the entry of the latest add of that path.
C8_LastAddWins ==
    \A p \in Procs :
        LET map == entries[p]
        IN  /\ \A i, j \in 1..Len(map) : map[i].path = map[j].path => i = j
            /\ \A k \in 1..Len(lastAdd[p]) :
                  LET a == lastAdd[p][k]
                  IN  /\ Cardinality({i \in 1..Len(map) : map[i].path = a.path}) = 1
                      /\ \E i \in 1..Len(map) :
                            map[i] = Entry_new(a.path, a.oid, a.metadata)

\* a path was added a second time with other values, beside another path
C8_Witness ==
    \E p \in Procs :
        /\ Len(entries[p]) > 1
        /\ \E k \in 1..Len(lastAdd[p]) : lastAdd[p][k].over

EntrySet(map) == {map[i] : i \in 1..Len(map)}

\* the entries of the set S in strictly increasing order of their paths
RECURSIVE SortedEntries(_)
SortedEntries(S) ==
    IF S = {} THEN << >>
    ELSE LET first == CHOOSE e \in S : \A f \in S : f.path = e.path \/ StrLess(e.path, f.path)
         IN  << first >> \o SortedEntries(S \ {first})

StrictlyIncreasing(map) ==
    \A i \in 1..(Len(map) - 1) : StrLess(map[i].path, map[i + 1].path)

\* C9: deterministic serialization.  write_updates writes the entries in strictly
\* increasing order of their paths, and the file it stages and publishes is a
\* function of the set of entries alone: the file of that set's entries taken in
\* path order, whatever the order of the add calls.
C9_Deterministic ==
    /\ \A p \in Procs :
          pc[p] = "wu_commit"
              => /\ StrictlyIncreasing(entries[p])
                 /\ disk.lock = Some(WriteUpdatesImage(SortedEntries(EntrySet(entries[p]))))
    /\ disk.index # None
          => /\ published # None
             /\ StrictlyIncreasing(published[1])
             /\ disk.index[1] = WriteUpdatesImage(SortedEntries(EntrySet(published[1])))

\* the file of a table is staged whose paths were added in decreasing order
C9_Witness ==
    \E p \in Procs :
        /\ pc[p] = "wu_commit"
        /\ Len(entries[p]) > 1
        /\ Len(lastAdd[p]) > 1
        /\ StrLess(lastAdd[p][2].path, lastAdd[p][1].path)

\* C10: header errors are values, not process aborts.  Load of a file whose header
\* is too short or does not start with DIRC returns MalformedHeader, and load of
\* a file whose version is not 2 returns UnsupportedVersion; the process goes on.
C10_HeaderErrorsAreValues ==
    \A p \in Procs :
        (LoadEnded(p) /\ corrupted \in {"flip", "truncate"} /\ disk.index # None)
            => LET file == disk.index[1]
                   malformed == \/ Len(file) < HEADER_SIZE
                                \/ SubSeq(file, 1, 4) # SIGNATURE
               IN  /\ malformed => ret[p].res = "MalformedHeader" /\ pc[p] = "ready"
                   /\ (~malformed /\ SubSeq(file, 5, 8) # U32Bytes(VERSION))
                          => ret[p].res = "UnsupportedVersion" /\ pc[p] = "ready"

\* C11: no partial table on a failed load.  When load has returned an error (a
\* checksum mismatch, or a read that ran out of bytes part way through the
\* entries), the table of the Index holds none of the entries read from the file.
C11_NoPartialTable ==
    \A p \in Procs :
        (LoadEnded(p) /\ ret[p].res \in {"ChecksumMismatch", "UnexpectedEof"})
            => entries[p] = << >>

\* process p calls load in this step, by itself or within load_for_update
LoadCalled(p) ==
    \/ pc[p] = "ready" /\ ret'[p].op = "load" /\ ret'[p] # ret[p]
    \/ pc[p] = "lfu_load" /\ pc'[p] # "lfu_load"

\* C12: load when no index file exists returns success and leaves the table
\* empty, whatever entries the Index held before, and leaves the disk alone.
C12_LoadWithoutFile ==
    [][ \A p \in Procs :
            (disk.index = None /\ LoadCalled(p))
                => /\ ret'[p].res = "Ok"
                   /\ entries'[p] = << >>
                   /\ pc'[p] = "ready"
                   /\ disk' = disk
      ]_vars

\* load_for_update is about to call load on an Index that holds entries, and
\* there is no index file
C12_Witness ==
    \E p \in Procs :
        /\ pc[p] = "lfu_load"
        /\ entries[p] # << >>
        /\ disk.index = None

----------------------------------------------------------------------------
(* Text: what format!, println! and join make of numbers and strings *)

NL == << 10 >>                                   \* "\n"

\* Display of an unsigned number below 2^31
RECURSIVE Decimal(_)
Decimal(n) == IF n < 10 THEN << 48 + n >> ELSE Decimal(n \div 10) \o << 48 + (n % 10) >>

\* a u32 (4 bytes) divided by ten: quotient (4 bytes) and remainder
DivMod10(b) ==
    LET c1 == b[1]
        c2 == (c1 % 10) * 256 + b[2]
        c3 == (c2 % 10) * 256 + b[3]
        c4 == (c3 % 10) * 256 + b[4]
    IN  [q |-> << c1 \div 10, c2 \div 10, c3 \div 10, c4 \div 10 >>, r |-> c4 % 10]

RECURSIVE DecimalU32Digits(_)
DecimalU32Digits(b) ==
    IF b = Zeros(4) THEN << >>
    ELSE DecimalU32Digits(DivMod10(b).q) \o << 48 + DivMod10(b).r >>

\* Display of a u32
DecimalU32(b) == IF b = Zeros(4) THEN << 48 >> ELSE DecimalU32Digits(b)

\* [String]::join(sep)
RECURSIVE Join(_, _)
Join(strings, sep) ==
    IF strings = << >> THEN << >>
    ELSE IF Len(strings) = 1 THEN strings[1]
    ELSE strings[1] \o sep \o Join(Tail(strings), sep)

\* Debug of a Vec whose elements are displayed as `shown`: "[a, b, c]"
DebugVec(shown) == << 91 >> \o Join(shown, << 44, 32 >>) \o << 93 >>

----------------------------------------------------------------------------
(* What load prints with println!, on the standard output of the process *)

\* Entry::parse, lines 72-79: for each of the ten fields, the byte range and the
\* fields read so far
Entry_parse_prints(bytes) ==
    LET range(i) == Decimal(i * 4) \o << 32, 46, 46, 32 >> \o Decimal(i * 4 + 4) \o NL
        sofar(i) == DebugVec([j \in 1..(i + 1) |-> DecimalU32(MetadataInt(bytes, j - 1))])
                        \o NL
    IN  [k \in 1..20 |-> IF k % 2 = 1 THEN range((k - 1) \div 2) ELSE sofar((k - 2) \div 2)]

\* Index::read_entries, line 310: println!("entry: {:?}", entry)
EntryLine(bytes) ==
    << 101, 110, 116, 114, 121, 58, 32 >>
        \o DebugVec([j \in 1..Len(bytes) |-> Decimal(bytes[j])]) \o NL

\* Checksum::verify_checksum, lines 179-180: "hash: ..." and "sum: ..."
ChecksumLines(hash, sum) ==
    << << 104, 97, 115, 104, 58, 32 >> \o hash \o NL,
       << 115, 117, 109, 58, 32 >> \o sum \o NL >>

\* Index::read_entries and verify_checksum run to their end on `file` from reader
\* r: the result, the table and the lines printed
RECURSIVE ReadEntriesRun(_, _, _, _)
ReadEntriesRun(file, r, map, out) ==
    IF r.count = 0
    THEN LET v == Checksum_verify_checksum(file, r)
             sum == encode_hex(SubSeq(file, r.pos + 1, r.pos + CHECKSUM_SIZE))
         IN  [res |-> v.res, entries |-> map,
              out |-> IF v.res = "UnexpectedEof" THEN out
                      ELSE out \o ChecksumLines(Sha1_result_str(r.digest), sum)]
    ELSE LET got == ReadEntryBytes(file, r)
         IN  IF ~got.ok THEN [res |-> "UnexpectedEof", entries |-> map, out |-> out]
             ELSE IF Entry_parse_panics(got.buf)
             THEN [res |-> "Panic", entries |-> map,
                   out |-> out \o << EntryLine(got.buf) >> \o Entry_parse_prints(got.buf)]
             ELSE ReadEntriesRun(file, [got.r EXCEPT !.count = @ - 1],
                                 Index_store_entry(map, Entry_parse(got.buf)),
                                 out \o << EntryLine(got.buf) >>
                                     \o Entry_parse_prints(got.buf))

\* Index::load run to its end on the index file (None when there is none)
LoadRun(file) ==
    IF file = None THEN [res |-> "Ok", entries |-> << >>, out |-> << >>]
    ELSE LET h == Index_read_header(file[1], Checksum_new)
         IN  IF h.panic THEN [res |-> "Panic", entries |-> << >>, out |-> << >>]
             ELSE ReadEntriesRun(file[1], h.r, << >>, << >>)

----------------------------------------------------------------------------
(* The status command, src/src/commands/status.rs.  A path of the working  *)
(* tree is relative to its root, with "/" between the names; the root is   *)
(* the empty path.  Workspace (crate::workspace) and Index::is_tracked_path *)
(* are not in the sources at hand.                                         *)

Slash == << 47 >>

\* the directory a path is in
Parent(path) ==
    LET at == {i \in 1..Len(path) : path[i] = 47}
    IN  IF at = {} THEN << >>
        ELSE SubSeq(path, 1, (CHOOSE i \in at : \A j \in at : j <= i) - 1)

\* the path is in the directory dir, at any depth
IsBeneath(path, dir) ==
    \/ dir = << >> /\ path # << >>
    \/ Len(path) > Len(dir) + 1 /\ SubSeq(path, 1, Len(dir) + 1) = dir \o Slash

\* the working directory of the command (ctx.dir)
RootPath == << 47, 119 >>                        \* "/w"

\* Workspace::abs_path
Workspace_abs_path(path) == RootPath \o Slash \o path

\* the path, relative to the root, of an absolute path in the working tree
RelativePath(abs) ==
    IF abs = RootPath THEN << >> ELSE SubSeq(abs, Len(RootPath) + 2, Len(abs))

\* the paths of the set S in ascending order
RECURSIVE SortedPaths(_)
SortedPaths(S) ==
    IF S = {} THEN << >>
    ELSE LET first == CHOOSE x \in S : \A y \in S : x = y \/ StrLess(x, y)
         IN  << first >> \o SortedPaths(S \ {first})

Reverse(seq) == [i \in 1..Len(seq) |-> seq[Len(seq) + 1 - i]]

\* Workspace::list_dir: what the directory holds, as paths relative to the root
\* with their metadata, in the order the file system lists them
Workspace_list_dir(ws, abs) ==
    LET dir == RelativePath(abs)
        names == SortedPaths({x \in ws.files \cup ws.dirs : Parent(x) = dir})
        listed == IF ws.order = "ascending" THEN names ELSE Reverse(names)
    IN  [i \in 1..Len(listed) |-> [path |-> listed[i], is_file |-> listed[i] \in ws.files]]

\* Workspace::is_dir
Workspace_is_dir(ws, path) == path \in ws.dirs

\* Index::is_tracked_path: the path is an entry, or a directory above an entry
Index_is_tracked_path(map, path) ==
    \E i \in 1..Len(map) : map[i].path = path \/ IsBeneath(map[i].path, path)

\* is_trackable_path without its second loop: the directories of the listing are
\* not searched
is_trackable_path_shallow(ws, map, path, is_file) ==
    IF is_file THEN ~Index_is_tracked_path(map, path)
    ELSE LET items == Workspace_list_dir(ws, Workspace_abs_path(path))
             files == SelectSeq(items, LAMBDA it : it.is_file)
         IN  \E i \in 1..Len(files) : ~Index_is_tracked_path(map, files[i].path)

\* is_trackable_path, lines 8-34
RECURSIVE is_trackable_path(_, _, _, _)
is_trackable_path(ws, map, path, is_file) ==
    IF is_file THEN ~Index_is_tracked_path(map, path)
    ELSE LET items == Workspace_list_dir(ws, Workspace_abs_path(path))
             files == SelectSeq(items, LAMBDA it : it.is_file)
             dirs == SelectSeq(items, LAMBDA it : ~it.is_file)
         IN  \/ \E i \in 1..Len(files) :
                    is_trackable_path(ws, map, files[i].path, files[i].is_file)
             \/ \E i \in 1..Len(dirs) :
                    is_trackable_path(ws, map, dirs[i].path, dirs[i].is_file)

\* scan_workspace without the descent into tracked directories
scan_workspace_flat(ws, map, prefix) ==
    LET items == Workspace_list_dir(ws, prefix)
        kept == SelectSeq(items, LAMBDA it :
                    /\ ~Index_is_tracked_path(map, it.path)
                    /\ is_trackable_path(ws, map, it.path, it.is_file))
    IN  [i \in 1..Len(kept) |->
            IF Workspace_is_dir(ws, kept[i].path) THEN kept[i].path \o Slash
            ELSE kept[i].path]

\* scan_workspace, lines 36-53; ScanItems is its loop over the listing
RECURSIVE scan_workspace(_, _, _)
RECURSIVE ScanItems(_, _, _)
ScanItems(ws, map, items) ==
    IF items = << >> THEN << >>
    ELSE LET path == Head(items).path
             found ==
                 IF Index_is_tracked_path(map, path)
                 THEN IF Workspace_is_dir(ws, path)
                      THEN scan_workspace(ws, map, Workspace_abs_path(path))
                      ELSE << >>
                 ELSE IF is_trackable_path(ws, map, path, Head(items).is_file)
                 THEN << IF Workspace_is_dir(ws, path) THEN path \o Slash ELSE path >>
                 ELSE << >>
         IN  found \o ScanItems(ws, map, Tail(items))

scan_workspace(ws, map, prefix) == ScanItems(ws, map, Workspace_list_dir(ws, prefix))

\* [String]::sort: ascending, byte by byte
RECURSIVE SortStrings(_)
SortStrings(strings) ==
    IF strings = << >> THEN << >>
    ELSE LET rest == SortStrings(Tail(strings))
             x == Head(strings)
             k == Cardinality({i \in 1..Len(rest) : StrLess(rest[i], x)})
         IN  SubSeq(rest, 1, k) \o << x >> \o SubSeq(rest, k + 1, Len(rest))

\* format!("?? {}\n", file)
StatusLine(file) == << 63, 63, 32 >> \o file \o NL

\* the process that runs the command
CommandProc == "p1"

\* status_command, lines 55-76: load (which prints) into repo.index, scan, sort,
\* one line a path
StatusCommand ==
    /\ result = "none"
    /\ \E loaded \in {LoadRun(disk.index)} :
          /\ entries' = [entries EXCEPT ![CommandProc] = loaded.entries]
          /\ IF loaded.res = "Ok"
             THEN /\ \E untracked_files \in
                            {SortStrings(scan_workspace(workspace, loaded.entries, RootPath))} :
                        stdout' = stdout \o loaded.out
                                      \o [i \in 1..Len(untracked_files) |->
                                             StatusLine(untracked_files[i])]
                  /\ result' = "Ok"
             ELSE /\ stdout' = stdout \o loaded.out
                  /\ result' = "Panic"
    /\ UNCHANGED << disk, pc, lock, hasher, changed, todo, rd, ret, before,
                    lastAdd, published, corrupted, workspace, args, repo, stderr >>

\* the working trees of SpecStatus: any of five files, in directories two deep,
\* beside an empty directory or one that holds only an empty directory
StatusFiles ==
    { << 98 >>, << 102 >>,                                    \* "b", "f"
      << 100, 47, 103 >>,                                     \* "d/g"
      << 100, 47, 101, 47, 104 >>,                            \* "d/e/h"
      << 100, 47, 101, 47, 107 >> }                           \* "d/e/k"

StatusEmptyDirs ==
    { {}, { << 111 >> }, { << 111 >>, << 111, 47, 105 >> } }  \* "o", "o/i"

\* the directories above a path
Ancestors(path) == {SubSeq(path, 1, i - 1) : i \in {j \in 1..Len(path) : path[j] = 47}}

Workspaces ==
    { [files |-> F, dirs |-> D \cup UNION {Ancestors(x) : x \in F}, order |-> o] :
          F \in SUBSET StatusFiles, D \in StatusEmptyDirs,
          o \in {"ascending", "descending"} }

\* the paths the index of SpecStatus may track; a tracked file may be gone from
\* the working tree
StatusTracked == { << 102 >>, << 100, 47, 103 >>, << 100, 47, 101, 47, 104 >> }

\* the index files of SpecStatus: none, or the file write_updates publishes for
\* a table of tracked paths
StatusIndexFiles ==
    { None } \cup
    { Some(WriteUpdatesImage(SortedEntries({Entry_new(x, OidA, StatRegular) : x \in T}))) :
          T \in {U \in SUBSET StatusTracked : Cardinality(U) <= MaxEntries} }

InitStatus ==
    /\ disk \in {[index |-> file, lock |-> None] : file \in StatusIndexFiles}
    /\ workspace \in Workspaces
    /\ pc = [p \in Procs |-> "none"]
    /\ entries = [p \in Procs |-> << >>]
    /\ lock = [p \in Procs |-> FALSE]
    /\ hasher = [p \in Procs |-> None]
    /\ changed = [p \in Procs |-> FALSE]
    /\ todo = [p \in Procs |-> << >>]
    /\ rd = [p \in Procs |-> NoReader]
    /\ ret = [p \in Procs |-> NoRet]
    /\ before = [p \in Procs |-> None]
    /\ lastAdd = [p \in Procs |-> << >>]
    /\ published = None
    /\ corrupted = "no"
    /\ args = << >>
    /\ repo = NoRepo
    /\ stdout = << >>
    /\ stderr = << >>
    /\ result = "none"

\* SpecStatus: one run of the status command in a working tree, on an index file
NextStatus == StatusCommand

SpecStatus == InitStatus /\ [][NextStatus]_vars

\* the table of the command's Index
Tracked(path) == Index_is_tracked_path(entries[CommandProc], path)

IsStatusLine(line) ==
    /\ Len(line) >= 4
    /\ SubSeq(line, 1, 3) = << 63, 63, 32 >>
    /\ line[Len(line)] = 10

\* the paths that status reported, as it printed them
Reported == {SubSeq(stdout[i], 4, Len(stdout[i]) - 1) :
                i \in {j \in 1..Len(stdout) : IsStatusLine(stdout[j])}}

\* a path of the working tree that scan_workspace comes to: it is in the root or
\* in a tracked directory
Visited(path) == Parent(path) = << >> \/ Tracked(Parent(path))

\* C14: status reports an untracked directory as the single entry "dir/" and
\* nothing beneath it; it reports the directory if and only if it holds, at any
\* depth, a file that is not tracked: not an empty directory, nor one that holds
\* only empty directories.
C14_UntrackedDirectories ==
    result = "Ok"
        => /\ \A dir \in workspace.dirs :
                  (~Tracked(dir) /\ Visited(dir))
                      => /\ (dir \o Slash) \in Reported
                               <=> \E file \in workspace.files :
                                       IsBeneath(file, dir) /\ ~Tracked(file)
                         /\ Cardinality({i \in 1..Len(stdout) :
                                            stdout[i] = StatusLine(dir \o Slash)}) <= 1
           /\ \A path \in Reported :
                  \A dir \in workspace.dirs : ~Tracked(dir) => ~IsBeneath(path, dir)

\* status has run where it reported a directory that holds a file only
\* indirectly, and kept silent on a directory that holds only an empty directory
C14_Witness ==
    /\ result = "Ok"
    /\ \E dir \in workspace.dirs :
          /\ ~Tracked(dir)
          /\ (dir \o Slash) \in Reported
          /\ ~\E file \in workspace.files : Parent(file) = dir
    /\ \E dir \in workspace.dirs :
          /\ (dir \o Slash) \notin Reported
          /\ \E sub \in workspace.dirs : Parent(sub) = dir

\* a reported path without the "/" that marks a directory
Unslashed(path) ==
    IF path # << >> /\ path[Len(path)] = 47 THEN SubSeq(path, 1, Len(path) - 1) ELSE path

\* C15: status never reports a tracked path, and it reports, by its own path,
\* every untracked file that is in the root or in a tracked directory, at every
\* depth.
C15_UntrackedFiles ==
    result = "Ok"
        => /\ \A path \in Reported : ~Tracked(Unslashed(path))
           /\ \A file \in workspace.files :
                  (~Tracked(file) /\ Visited(file)) => file \in Reported
           /\ \A dir \in workspace.dirs :
                  (/\ ~Tracked(dir) /\ Visited(dir)
                   /\ \E file \in workspace.files : IsBeneath(file, dir))
                      => (dir \o Slash) \in Reported

\* status has run where an untracked file lies two directories deep beside a
\* tracked one, and another lies in the root
C15_Witness ==
    /\ result = "Ok"
    /\ \E file \in workspace.files :
          /\ Parent(Parent(file)) # << >>
          /\ ~Tracked(file) /\ Tracked(Parent(file))
          /\ file \in Reported
    /\ \E file \in workspace.files : Parent(file) = << >> /\ file \in Reported
    /\ \E file \in workspace.files : Tracked(file)

\* C16: status prints the untracked entries in ascending order, one "?? <path>"
\* line each, whatever the order of the directory listing, and nothing else on
\* standard output.
C16_StatusOutput ==
    result = "Ok"
        => /\ \A i \in 1..Len(stdout) : IsStatusLine(stdout[i])
           /\ \A i \in 1..(Len(stdout) - 1) :
                  StrLess(SubSeq(stdout[i], 4, Len(stdout[i]) - 1),
                          SubSeq(stdout[i + 1], 4, Len(stdout[i + 1]) - 1))

\* ---- the branch command (src/src/commands/branch.rs) ----

\* the most diagnostics the resolver returns, and the most hints of a diagnostic
MaxDiagnostics == 2

MaxHints == 2

\* the sequences over S of length at most n
SeqsUpTo(S, n) == UNION {[1..k -> S] : k \in 0..n}

Messages == { << 117 >>, << 97, 109 >> }                      \* "u", "am"

Hints == { << 100 >>, << 116, 114, 121 >> }                   \* "d", "try"

\* a diagnostic of the resolver: a message and its hints
Diagnostics == {[message |-> m, hint |-> h] : m \in Messages, h \in SeqsUpTo(Hints, MaxHints)}

\* what Revision::resolve answers: an id, or diagnostics
Resolved == [ok |-> TRUE, rev |-> OidA, errors |-> << >>]

Failures == {[ok |-> FALSE, rev |-> << >>, errors |-> e] :
                e \in SeqsUpTo(Diagnostics, MaxDiagnostics)}

\* Debug of the changes of the tree diff that Branch::new computes
ChangesShown == { << 123, 125 >> }                            \* "{}"

\* the message of a refs.create_branch that fails
RefsMessages == { << 101, 120, 105, 115, 116, 115 >> }        \* "exists"

\* the repositories of SpecBranch: every failure of the resolver where HEAD holds
\* an id and the branch can be created; every HEAD and every answer of
\* refs.create_branch where the resolver succeeds or gives one diagnostic
Repos ==
    { [head |-> h, resolve |-> r, changes |-> c, create |-> k, diffs |-> 0,
       created |-> << >>] :
          h \in {Some(OidB)}, r \in Failures, c \in ChangesShown, k \in {None} }
    \cup
    { [head |-> h, resolve |-> r, changes |-> c, create |-> k, diffs |-> 0,
       created |-> << >>] :
          h \in {None, Some(OidB)},
          r \in {Resolved} \cup {f \in Failures : Len(f.errors) = 1},
          c \in ChangesShown,
          k \in {None} \cup {Some(m) : m \in RefsMessages} }

\* env::args(): the program, the command, and what the user typed after it
ArgLists == { << "rug", "branch" >>, << "rug", "branch", "topic" >>,
              << "rug", "branch", "topic", "@^" >> }

ErrorPrefix == << 101, 114, 114, 111, 114, 58, 32 >>          \* "error: "

HintPrefix == << 104, 105, 110, 116, 58, 32 >>                \* "hint: "

\* the loop of create_branch over the errors, stopped after the first error
DiagnosticLines_first(errors) ==
    IF errors = << >> THEN << >>
    ELSE << ErrorPrefix \o Head(errors).message >>
             \o [k \in 1..Len(Head(errors).hint) |-> HintPrefix \o Head(errors).hint[k]]

\* create_branch, lines 53-59: v after the loop over the errors
RECURSIVE DiagnosticLines(_)
DiagnosticLines(errors) ==
    IF errors = << >> THEN << >>
    ELSE << ErrorPrefix \o Head(errors).message >>
             \o [k \in 1..Len(Head(errors).hint) |-> HintPrefix \o Head(errors).hint[k]]
             \o DiagnosticLines(Tail(errors))

\* create_branch, lines 44-71: [res, message, created]
create_branch(r, a) ==
    IF ~(Len(a) > 2) THEN [res |-> "Panic", message |-> << >>, created |-> r.created]
    ELSE IF Len(a) < 3
    THEN IF r.head = None
         THEN [res |-> "Panic", message |-> << >>, created |-> r.created]
         ELSE IF r.create = None
         THEN [res |-> "Ok", message |-> << >>,
               created |-> Append(r.created, [name |-> a[3], start |-> r.head[1]])]
         ELSE [res |-> "Err", message |-> r.create[1],
               created |-> Append(r.created, [name |-> a[3], start |-> r.head[1]])]
    ELSE IF Len(a) < 4 THEN [res |-> "Panic", message |-> << >>, created |-> r.created]
    ELSE IF ~r.resolve.ok
    THEN [res |-> "Err",
          message |-> Join(DiagnosticLines(r.resolve.errors) \o << NL >>, NL),
          created |-> r.created]
    ELSE IF r.create = None
    THEN [res |-> "Ok", message |-> << >>,
          created |-> Append(r.created, [name |-> a[3], start |-> r.resolve.rev])]
    ELSE [res |-> "Err", message |-> r.create[1],
          created |-> Append(r.created, [name |-> a[3], start |-> r.resolve.rev])]

\* Branch::new, lines 25-36: the repository, then a tree diff of two fixed ids,
\* whose changes are printed
BranchNew ==
    /\ result = "none"
    /\ pc[CommandProc] = "none"
    /\ pc' = [pc EXCEPT ![CommandProc] = "branch"]
    /\ repo' = [repo EXCEPT !.diffs = repo.diffs + 1]
    /\ stdout' = Append(stdout, repo.changes \o NL)
    /\ UNCHANGED << disk, entries, lock, hasher, changed, todo, rd, ret, before,
                    lastAdd, published, corrupted, workspace, args, stderr, result >>

\* Branch::run, lines 38-42, and the end of main: an error goes to standard error
BranchRun ==
    /\ result = "none"
    /\ pc[CommandProc] = "branch"
    /\ \E done \in {create_branch(repo, args)} :
          /\ repo' = [repo EXCEPT !.created = done.created]
          /\ stderr' = IF done.res = "Err" THEN stderr \o done.message ELSE stderr
          /\ result' = done.res
    /\ pc' = [pc EXCEPT ![CommandProc] = "none"]
    /\ UNCHANGED << disk, entries, lock, hasher, changed, todo, rd, ret, before,
                    lastAdd, published, corrupted, workspace, args, stdout >>

InitBranch ==
    /\ disk = [index |-> None, lock |-> None]
    /\ pc = [p \in Procs |-> "none"]
    /\ entries = [p \in Procs |-> << >>]
    /\ lock = [p \in Procs |-> FALSE]
    /\ hasher = [p \in Procs |-> None]
    /\ changed = [p \in Procs |-> FALSE]
    /\ todo = [p \in Procs |-> << >>]
    /\ rd = [p \in Procs |-> NoReader]
    /\ ret = [p \in Procs |-> NoRet]
    /\ before = [p \in Procs |-> None]
    /\ lastAdd = [p \in Procs |-> << >>]
    /\ published = None
    /\ corrupted = "no"
    /\ workspace = NoWorkspace
    /\ args \in ArgLists
    /\ repo \in Repos
    /\ stdout = << >>
    /\ stderr = << >>
    /\ result = "none"

\* SpecBranch: one run of the branch command
NextBranch == BranchNew \/ BranchRun

SpecBranch == InitBranch /\ [][NextBranch]_vars

\* the lines of a text: what lies between its "\n" bytes
RECURSIVE Lines(_)
Lines(text) ==
    LET at == {i \in 1..Len(text) : text[i] = 10}
    IN  IF at = {} THEN << text >>
        ELSE LET first == CHOOSE i \in at : \A j \in at : i <= j
             IN  << SubSeq(text, 1, first - 1) >>
                     \o Lines(SubSeq(text, first + 1, Len(text)))

\* the line on which diagnostic i starts, when each diagnostic takes one line and
\* one more for each of its hints
RECURSIVE LineOf(_, _)
LineOf(errors, i) ==
    IF i = 1 THEN 1 ELSE LineOf(errors, i - 1) + 1 + Len(errors[i - 1].hint)

\* C13: when the resolver fails, the branch command ends with an error whose text
\* holds, for every diagnostic and in the resolver's order, one line
\* "error: <message>" followed by one line "hint: <hint>" for each hint of that
\* diagnostic, in order, and no other text; refs.create_branch is not called.
C13_AllDiagnosticsReported ==
    (result # "none" /\ Len(args) > 3 /\ ~repo.resolve.ok)
        => /\ result = "Err"
           /\ \E lines \in {Lines(stderr)} :
                 /\ \A i \in 1..Len(repo.resolve.errors) :
                       \E at \in {LineOf(repo.resolve.errors, i)} :
                          /\ at + Len(repo.resolve.errors[i].hint) <= Len(lines)
                          /\ lines[at] = ErrorPrefix \o repo.resolve.errors[i].message
                          /\ \A k \in 1..Len(repo.resolve.errors[i].hint) :
                                lines[at + k] = HintPrefix \o repo.resolve.errors[i].hint[k]
                 /\ \A n \in 1..Len(lines) :
                       n >= LineOf(repo.resolve.errors, Len(repo.resolve.errors) + 1)
                           => lines[n] = << >>
           /\ repo.created = << >>

\* the command has ended on two diagnostics with different messages, the first
\* with two different hints and the second with a hint
C13_Witness ==
    /\ result = "Err"
    /\ Len(args) > 3
    /\ Len(repo.resolve.errors) = 2
    /\ repo.resolve.errors[1].message # repo.resolve.errors[2].message
    /\ Len(repo.resolve.errors[1].hint) = 2
    /\ repo.resolve.errors[1].hint[1] # repo.resolve.errors[1].hint[2]
    /\ Len(repo.resolve.errors[2].hint) >= 1
    /\ Len(stderr) > 0

\* the bytes of the entries of a table, one after the other
RECURSIVE EntriesImage(_)
EntriesImage(map) ==
    IF map = << >> THEN << >> ELSE Entry_to_bytes(Head(map)) \o EntriesImage(Tail(map))

\* C17: the order of publishing.  write_updates goes from the acquisition of the
\* lock to the header, the entries, the checksum and then the rename, which gives
\* the lock up; the lock file is written only by a process that holds the lock;
\* and the file that is renamed holds the header, every entry and the
\* CHECKSUM_SIZE bytes of the checksum after them.
C17_PublishOrder ==
    [][ /\ \A p \in Procs :
              /\ (pc'[p] = "wu_header" /\ pc[p] # "wu_header")
                    => /\ pc[p] = "ready"
                       /\ lock'[p]
                       /\ disk'.lock # None
                       /\ disk'.index = disk.index
              /\ (pc'[p] = "wu_entries" /\ pc[p] # "wu_entries")
                    => /\ pc[p] = "wu_header"
                       /\ lock[p]
                       /\ disk'.lock = Some(disk.lock[1] \o HeaderBytes(entries[p]))
              /\ (pc'[p] = "wu_commit" /\ pc[p] # "wu_commit")
                    => /\ pc[p] = "wu_entries"
                       /\ lock[p]
                       /\ Len(disk'.lock[1]) = Len(disk.lock[1]) + CHECKSUM_SIZE
                       /\ IsPrefix(disk.lock[1], disk'.lock[1])
                       /\ disk'.index = disk.index
              /\ (ret'[p] = WriteUpdatesOf("Ok") /\ ret'[p] # ret[p])
                    => /\ pc[p] = "wu_commit"
                       /\ lock[p]
                       /\ Len(disk.lock[1]) = HEADER_SIZE + Len(EntriesImage(entries[p]))
                                                  + CHECKSUM_SIZE
                       /\ IsPrefix(HeaderBytes(entries[p]) \o EntriesImage(entries[p]),
                                   disk.lock[1])
                       /\ disk'.index = disk.lock
                       /\ disk'.lock = None
                       /\ ~lock'[p]
        /\ (disk'.lock # disk.lock /\ disk'.lock # None /\ disk'.lock # Some(<< >>))
              => \E p \in Procs : /\ lock[p] /\ lock'[p]
                                  /\ pc[p] \in Writing
                                  /\ disk.lock # None
                                  /\ IsPrefix(disk.lock[1], disk'.lock[1])
        /\ disk'.index # disk.index
              => \E p \in Procs : pc[p] = "wu_commit" /\ lock[p] /\ ~lock'[p]
      ]_vars

\* a write_updates has published a table of entries and given the lock up
C17_Witness ==
    \E p \in Procs :
        /\ ret[p] = WriteUpdatesOf("Ok")
        /\ published # None
        /\ Len(published[1]) >= 1
        /\ disk.index # None
        /\ Len(disk.index[1]) > HEADER_SIZE + CHECKSUM_SIZE
        /\ disk.lock = None

\* ---- interrupted writers ----

\* the process is interrupted while its Index holds the lock: nothing of it runs
\* any more, and the files stay as they are
Interrupt(p) ==
    /\ lock[p]
    /\ pc' = [pc EXCEPT ![p] = "none"]
    /\ ret' = [ret EXCEPT ![p] = [op |-> ret[p].op, res |-> "Interrupted"]]
    /\ rd' = [rd EXCEPT ![p] = NoReader]
    /\ before' = [before EXCEPT ![p] = None]
    /\ Dropped(p)
    /\ UNCHANGED << disk, published, corrupted >>
    /\ UNCHANGED cmdVars

\* the lock file is on disk and no Index holds it
StaleLock == disk.lock # None /\ \A p \in Procs : ~lock[p]

\* somebody removes the stale lock file by hand
RemoveStaleLock ==
    /\ StaleLock
    /\ disk' = [disk EXCEPT !.lock = None]
    /\ UNCHANGED << pc, entries, lock, hasher, changed, todo, rd, ret, before, lastAdd,
                    published, corrupted >>
    /\ UNCHANGED cmdVars

\* SpecStale: the processes of Spec without I/O errors; a process that holds the
\* lock may be interrupted, and a stale lock file may be removed from outside
NextStale ==
    \/ \E p \in Procs :
          \/ IndexStep(p, {TRUE})
          \/ \E path \in PathsOf(p), f \in Files : Add(p, path, f.oid, f.metadata)
          \/ Interrupt(p)
    \/ RemoveStaleLock

SpecStale == Init /\ [][NextStale]_vars

\* C18: the stale lock.  The interruption of a process that holds the lock leaves
\* the lock file on disk and the index file as it was; while the lock file is on
\* disk and no Index holds it, every write_updates and load_for_update returns
\* LockHeld without the lock, the index file stays, and the lock file goes only by
\* a removal from outside; once it is gone, a write_updates or load_for_update
\* acquires the lock.
C18_StaleLock ==
    [][ /\ \A p \in Procs :
              (ret'[p].res = "Interrupted" /\ ret'[p] # ret[p])
                  => /\ disk.lock # None
                     /\ disk' = disk
                     /\ StaleLock'
        /\ StaleLock
              => /\ \A p \in Procs :
                       Acquires(p) => /\ ret'[p].res = "LockHeld"
                                      /\ ~lock'[p]
                                      /\ disk' = disk
                 /\ disk'.index = disk.index
                 /\ disk'.lock # disk.lock
                       => /\ disk'.lock = None
                          /\ pc' = pc /\ ret' = ret /\ lock' = lock /\ entries' = entries
        /\ disk.lock = None
              => \A p \in Procs :
                     Acquires(p) => /\ ret'[p].res = "running"
                                    /\ lock'[p]
                                    /\ disk'.lock # None
      ]_vars

\* a process was interrupted part way through writing, and another was then
\* refused the lock that nobody holds
C18_Witness ==
    \E p, q \in Procs :
        /\ p # q
        /\ ret[p] = [op |-> "write_updates", res |-> "Interrupted"]
        /\ ret[q].res = "LockHeld"
        /\ StaleLock
        /\ Len(disk.lock[1]) >= HEADER_SIZE

\* ---- the lengths of paths ----

\* the longest of the short paths that are added
MaxPathLen == 17

\* a path of n bytes
PathOfLength(n) == [i \in 1..n |-> 97]

\* the number of values of a u16
U16Range == 65536

\* the lengths of the paths of SpecFlags: short ones, those around MAX_PATH_SIZE,
\* and those around the first length that does not fit in 16 bits
FlagsLengths ==
    (0..MaxPathLen) \cup ((MAX_PATH_SIZE - 1)..(MAX_PATH_SIZE + 1))
        \cup ((U16Range - MaxPathLen)..(U16Range + MaxPathLen))

\* Index::add of a path of n bytes, as the first entry of the Index
AddPath(p, n, f) ==
    /\ entries[p] = << >>
    /\ Add(p, PathOfLength(n), f.oid, f.metadata)

\* SpecFlags: one process that adds one path of any of the lengths to a new Index
NextFlags ==
    \/ NewIndex("p1")
    \/ Exit("p1")
    \/ \E n \in FlagsLengths, f \in FilesRoundTrip(PathA) : AddPath("p1", n, f)

SpecFlags == Init /\ [][NextFlags]_vars

\* C19: the flags of the entry that add builds are min(length of the path in
\* bytes, 0xFFF), for a path of any length, also one whose length does not fit
\* in 16 bits.
C19_FlagsArePathLength ==
    \A p \in Procs : \A i \in 1..Len(entries[p]) :
        entries[p][i].flags = Min(Len(entries[p][i].path), MAX_PATH_SIZE)

\* ---- the framing of entries ----

\* Index::add of a path of n bytes, of an executable file of root, while no index
\* file is published; the paths of an Index are added from the shortest on
AddShort(p, n) ==
    /\ disk.index = None
    /\ \A i \in 1..Len(entries[p]) : Len(entries[p][i].path) < n
    /\ Add(p, PathOfLength(n), OidB, StatExecutable)

\* SpecEntry: a process adds paths of 0 to MaxPathLen bytes to a new Index and
\* publishes them; the file is then loaded
NextEntry ==
    \/ IndexStep("p1", {TRUE})
    \/ \E n \in 0..MaxPathLen : AddShort("p1", n)

SpecEntry == Init /\ [][NextEntry]_vars

\* the bytes to_bytes gives are a multiple of 8 and at least MIN_ENTRY_SIZE long,
\* and a 0x00 follows the path
EntrySized(e) ==
    /\ Len(Entry_to_bytes(e)) % 8 = 0
    /\ Len(Entry_to_bytes(e)) >= MIN_ENTRY_SIZE
    /\ Entry_to_bytes(e)[62 + Len(e.path) + 1] = 0
    /\ Entry_to_bytes(e)[Len(Entry_to_bytes(e))] = 0

\* the number of entries that the load of process p has read
EntriesRead(p) == Len(rd[p].table[1]) - rd[p].count

\* the load of process p has consumed the header and exactly the bytes to_bytes
\* gave for the entries it has read, and holds these entries
LoadConsumesEntries(p) ==
    (pc[p] = "ld_entries" /\ rd[p].table # None)
        => /\ rd[p].pos = HEADER_SIZE
                            + Len(EntriesImage(SubSeq(rd[p].table[1], 1, EntriesRead(p))))
           /\ Len(entries[p]) = EntriesRead(p)
           /\ \A i \in 1..EntriesRead(p) : entries[p][i].path = rd[p].table[1][i].path

\* C20 as it is stated: for every length of path the bytes of an entry are a
\* multiple of 8 and at least 64 long, a 0x00 follows the path, and the last byte
\* of each block of 8 bytes before the final one is not zero, so that load
\* consumes exactly the bytes to_bytes gave for the entry.
C20_EveryBlockEnd ==
    \A p \in Procs :
        /\ \A i \in 1..Len(entries[p]) :
              /\ EntrySized(entries[p][i])
              /\ \A k \in 1..((Len(Entry_to_bytes(entries[p][i])) \div 8) - 1) :
                    Entry_to_bytes(entries[p][i])[8 * k] # 0
        /\ LoadConsumesEntries(p)

\* C20, amended: the last byte is not zero in the blocks at which load looks, the
\* block that ends the first MIN_ENTRY_SIZE bytes and each block of 8 bytes after
\* it, but for the final block of the entry; the blocks inside the fixed fields
\* may end in zero.
C20_EntryFraming ==
    \A p \in Procs :
        /\ \A i \in 1..Len(entries[p]) :
              /\ EntrySized(entries[p][i])
              /\ \A k \in (MIN_ENTRY_SIZE \div 8)..
                             ((Len(Entry_to_bytes(entries[p][i])) \div 8) - 1) :
                    Entry_to_bytes(entries[p][i])[8 * k] # 0
        /\ LoadConsumesEntries(p)

\* a load has read two entries, one of the shortest and one that needed two more
\* chunks, from the file that write_updates published for them
C20_Witness ==
    /\ pc["p1"] = "ld_entries"
    /\ rd["p1"].table # None
    /\ rd["p1"].count = 0
    /\ Len(entries["p1"]) = 2
    /\ Len(entries["p1"][1].path) <= 1
    /\ Len(Entry_to_bytes(entries["p1"][1])) = MIN_ENTRY_SIZE
    /\ Len(Entry_to_bytes(entries["p1"][2])) >= MIN_ENTRY_SIZE + 16
    /\ rd["p1"].pos > HEADER_SIZE + MIN_ENTRY_SIZE

\* ---- the modes of entries ----

\* st_mode of the files of SpecMode: 0o100644, 0o100744, 0o100755, 0o100600,
\* 0o100664, 0o100711, 0o100651 (executable for the group and others only) and
\* 0o100477
FileModes == { 33188, 33252, 33261, 33152, 33204, 33225, 33193, 33087 }

\* the file of SpecMode with st_mode m
ModeFile(m) == [oid |-> OidA, metadata |-> [StatRegular EXCEPT !.mode = U32Bytes(m)]]

\* SpecMode: one process that adds "a" as a file of any of the modes, publishes
\* and loads
NextMode ==
    \/ IndexStep("p1", {TRUE})
    \/ \E m \in FileModes : Add("p1", PathA, ModeFile(m).oid, ModeFile(m).metadata)

SpecMode == Init /\ [][NextMode]_vars

\* the owner-execute bit (0o100) of a mode of 4 bytes
OwnerExecute(mode) == ((mode[3] * 256 + mode[4]) \div 64) % 2 = 1

\* C21: the tracked modes.  After adds and loads every entry of the table has
\* mode 0o100755 or 0o100644, and the entry of a path that was added has
\* 0o100755 exactly when the owner-execute bit of the file's mode is set.
C21_TrackedModes ==
    \A p \in Procs :
        /\ \A i \in 1..Len(entries[p]) :
              entries[p][i].mode \in {U32Bytes(33261), U32Bytes(33188)}
        /\ \A k \in 1..Len(lastAdd[p]) :
              \E i \in 1..Len(entries[p]) :
                  /\ entries[p][i].path = lastAdd[p][k].path
                  /\ entries[p][i].mode = U32Bytes(33261)
                        <=> OwnerExecute(lastAdd[p][k].metadata.mode)
                  /\ entries[p][i].mode = U32Bytes(33188)
                        <=> ~OwnerExecute(lastAdd[p][k].metadata.mode)

\* the entry of a file with the owner-execute bit has been published, and the
\* path is added to an Index as a file that only the group and others may
\* execute
C21_Witness ==
    /\ published # None
    /\ Len(published[1]) = 1
    /\ published[1][1].mode = U32Bytes(33261)
    /\ Len(entries["p1"]) = 1
    /\ Len(lastAdd["p1"]) = 1
    /\ lastAdd["p1"][1].metadata.mode = U32Bytes(33193)
    /\ entries["p1"][1].mode = U32Bytes(33188)
    /\ disk.index # None

\* C22: construction has no side effect.  Branch::new and Index::new compute no
\* tree diff, so read no object for one, and write nothing to standard output
\* nor to disk; what a diff shows is computed only when it is asked for.
C22_ConstructionIsSilent ==
    [][ /\ (pc[CommandProc] = "none" /\ pc'[CommandProc] = "branch")
              => /\ stdout' = stdout
                 /\ repo'.diffs = repo.diffs
                 /\ disk' = disk
        /\ \A p \in Procs :
              (pc[p] = "none" /\ pc'[p] = "ready")
                  => /\ stdout' = stdout
                     /\ repo' = repo
                     /\ disk' = disk
      ]_vars

\* ---- two writers on a published index ----

\* the table of the index that is published when SpecLost starts
StartTable == << Entry_new(PathLong, OidB, StatRegular) >>

InitLost ==
    /\ disk = [index |-> Some(WriteUpdatesImage(StartTable)), lock |-> None]
    /\ pc = [p \in Procs |-> "none"]
    /\ entries = [p \in Procs |-> << >>]
    /\ lock = [p \in Procs |-> FALSE]
    /\ hasher = [p \in Procs |-> None]
    /\ changed = [p \in Procs |-> FALSE]
    /\ todo = [p \in Procs |-> << >>]
    /\ rd = [p \in Procs |-> NoReader]
    /\ ret = [p \in Procs |-> NoRet]
    /\ before = [p \in Procs |-> None]
    /\ lastAdd = [p \in Procs |-> << >>]
    /\ published = Some(StartTable)
    /\ corrupted = "no"
    /\ NoCommand

\* SpecLost: the processes of Spec, without I/O errors, on a repository whose
\* index holds "dir/file1"
NextLost ==
    \E p \in Procs :
        \/ IndexStep(p, {TRUE})
        \/ \E path \in PathsOf(p), f \in Files : Add(p, path, f.oid, f.metadata)

SpecLost == InitLost /\ [][NextLost]_vars

\* the table holds an entry of the path
HasPath(map, path) == \E i \in 1..Len(map) : map[i].path = path

\* the table without the entries of the paths in S
WithoutPaths(map, S) == SelectSeq(map, LAMBDA e : e.path \notin S)

\* process q publishes, in this step, a table made of one add to the table that
\* process p, which published last, had made its one add to: both had loaded the
\* same index, which held entries (that neither of them adds)
SecondOfTwoWriters(p, q) ==
    /\ p # q
    /\ ret[p] = WriteUpdatesOf("Ok")
    /\ published # None
    /\ \E path \in PathsOf(p) : HasPath(published[1], path)
    /\ Len(lastAdd[q]) = 1
    /\ lastAdd[q][1].path \in PathsOf(q)
    /\ WithoutPaths(entries[q], PathsOf(q)) = WithoutPaths(published[1], PathsOf(p))
    /\ WithoutPaths(entries[q], PathsOf(q)) # << >>
    /\ ret'[q] = WriteUpdatesOf("Ok")
    /\ ret'[q] # ret[q]

\* C23: no update is lost.  When two processes have loaded the same published
\* index, each has added a path of its own, and the write_updates of both return
\* Ok, the index published in the end holds both paths.
C23_NoLostUpdate ==
    [][ \A p, q \in Procs :
            SecondOfTwoWriters(p, q)
                => /\ published' # None
                   /\ \A path \in PathsOf(p) \cup PathsOf(q) : HasPath(published'[1], path)
                   /\ disk'.index = Some(WriteUpdatesImage(published'[1]))
      ]_vars

\* ---- load_for_update, add, write_updates ----

\* SpecUpdate: on a repository whose index holds "dir/file1", each process only
\* adds to, and writes, an Index that holds the lock from load_for_update
NextUpdate ==
    \E p \in Procs :
        \/ NewIndex(p)
        \/ Exit(p)
        \/ LoadForUpdate(p)
        \/ LoadForUpdateLoad(p)
        \/ LoadHeader(p)
        \/ LoadEntry(p)
        \/ LoadVerify(p)
        \/ lock[p] /\ \E path \in PathsOf(p), f \in Files : Add(p, path, f.oid, f.metadata)
        \/ lock[p] /\ WU_Hold(p)
        \/ WU_Header(p, TRUE)
        \/ WU_Entry(p, TRUE)
        \/ WU_Checksum(p, TRUE)
        \/ WU_Commit(p, TRUE)

SpecUpdate == InitLost /\ [][NextUpdate]_vars

C25_StartPoint ==
    result # "none"
        => /\ result \in {"Ok", "Err"}
           /\ (Len(args) = 3 /\ repo.head # None)
                 => /\ repo.created = << [name |-> args[3], start |-> repo.head[1]] >>
                    /\ result = "Ok" <=> repo.create = None
           /\ (Len(args) = 4 /\ repo.resolve.ok)
                 => /\ repo.created = << [name |-> args[3], start |-> repo.resolve.rev] >>
                    /\ result = "Ok" <=> repo.create = None

====
